---- MODULE Spec2Model ----
(***************************************************************************)
(* Home inspection pipeline: HomeInspector (logic.py) driven by the        *)
(* Streamlit session script (app.py).                                      *)
(*                                                                         *)
(* File names are records [stem, off, ext]: "frame_5.jpg" is               *)
(* [stem |-> "frame", off |-> 5, ext |-> "jpg"], and "frame_5" is the same *)
(* with ext "" -- two different names, as they are two different strings.  *)
(* Reference files are records [dir, name, ext], dir being the name of the *)
(* immediate parent directory.                                             *)
(*                                                                         *)
(* Time is in minutes.  Video durations are in units of 1/DurUnit seconds. *)
(***************************************************************************)
EXTENDS Integers, FiniteSets, Sequences, TLC

\* ---------------------------------------------------------------- bounds
DurUnit == 2            \* duration resolution: units per second
MaxDurUnits == 25       \* longest video, in duration units (12.5 s)
MaxPolls == 3           \* polls of one wait the model follows
TickMinutes == 60       \* clock step
MaxNow == 60            \* last clock value
MaxSynth == 2           \* generate_report invocations the model follows
UnknownOffset == 999    \* an offset no video of the model reaches

\* ------------------------------------------------------ program constants
FRAME_INTERVAL == 5     \* range(0, int(duration), 5)
TTL_MINUTES == 60       \* ttl=datetime.timedelta(minutes=60)
POLL_SLEEP == 10        \* time.sleep(10), seconds

SUPPORTED_EXTENSIONS == {"txt", "pdf", "doc", "docx", "jpg", "jpeg", "png"}
VIDEO_EXTENSIONS == {"mp4", "mov", "avi"}
EXAMPLE_SUBFOLDERS == {"example1", "example2"}

NoRef == [stem |-> "", off |-> 0, ext |-> ""]           \* no mediaReference
NoReport == [kind |-> "none", ref |-> NoRef]            \* st.session_state.report unset or None
NoFramePaths == << >>                                   \* frame_paths unset or None

\* ------------------------------------------------------------- dictionaries
\* A Python dict is a function; d[k] = v adds or replaces the key.
EmptyDict == << >>
PutAll(d, ks, v) == [x \in (DOMAIN d) \cup ks |-> IF x \in ks THEN v ELSE d[x]]

\* ------------------------------------------------------------ process_video
IntDuration(d) == d \div DurUnit
Range(stop, step) == {t \in 0..(stop - 1) : t % step = 0}
SampleOffsets(d) == Range(IntDuration(d), FRAME_INTERVAL)
FrameFileName(t) == [stem |-> "frame", off |-> t, ext |-> "jpg"]
FrameKey(t) == [stem |-> "video", off |-> t, ext |-> "s"]
\* frame_paths of a run whose reads succeeded at the offsets in decoded
FramePaths(decoded) == [k \in {FrameKey(t) : t \in decoded} |-> FrameFileName(k.off)]

\* What one process_video call does on a video of duration d whose reads
\* succeed at the offsets in readOk: the offsets it seeks to, the frames it
\* writes.
ProcessVideoResult(d, readOk) ==
    [attempts |-> SampleOffsets(d),
     frames   |-> SampleOffsets(d) \cap readOk]

\* ------------------------------------------------- reference corpus loading
FileKey(f) == [name |-> f.name, ext |-> f.ext]              \* file_path.name
\* The files of a tree that genai.upload_file accepted (failing: the files
\* whose upload raises, caught and printed by the loader).
StandardsUploadedStopOnError(files, failing) ==
    IF \E f \in files : f.ext \in SUPPORTED_EXTENSIONS /\ f \in failing
    THEN {}
    ELSE {f \in files : f.ext \in SUPPORTED_EXTENSIONS}
StandardsUploaded(files, failing) ==
    {f \in files : f.ext \in SUPPORTED_EXTENSIONS /\ f \notin failing}
ExamplesUploaded(files, failing, subfolder) ==
    {f \in files : /\ f.ext \in SUPPORTED_EXTENSIONS
                   /\ f.dir = subfolder
                   /\ f.dir \in EXAMPLE_SUBFOLDERS
                   /\ f \notin failing}
\* The dicts a loop "d[file_path.name] = uploaded_file" over the uploaded
\* files can leave: one entry per name, holding one of the files of that name
\* (rglob's order decides which one was written last).
DictsOf(uploaded) ==
    {d \in [{FileKey(f) : f \in uploaded} -> uploaded] :
        \A k \in DOMAIN d : FileKey(d[k]) = k}
Values(d) == {d[k] : k \in DOMAIN d}
\* try: genai.upload_file(...) except Exception: print(...) -- no upload
\* failure leaves _load_standards or _load_examples.
LoaderRaises(files, failing) == FALSE
\* contents=[doc for doc in self.document_dict['building_standards'].values()]
CacheContents(standards) == Values(standards)

\* ------------------------------------------------------------ upload tracker
KeepPollingUntilFailed(state) == state # "FAILED"
\* while video_file.state.name == "PROCESSING"
KeepPolling(state) == state = "PROCESSING"
\* The lifecycle state the code is in for a remote state name.
TrackerState(state) ==
    CASE state = "PROCESSING" -> "RemoteProcessing"
      [] state = "ACTIVE"     -> "Ready"
      [] OTHER                -> "Failed"
\* if video_file.state.name == "FAILED": raise ValueError; an exception of
\* upload_file or get_file ("raise") leaves _upload_video the same way.
VideoRaises(state) == state \in {"FAILED", "raise"}
\* The branch of upload_user_media a path takes.
MediaBranch(ext) ==
    IF ext \in SUPPORTED_EXTENSIONS THEN "document"
    ELSE IF ext \in VIDEO_EXTENSIONS THEN "video" ELSE "ignored"
UploadImagesNoCatch(frames, failing) ==
    LET upTo == IF failing = {} THEN frames
                ELSE {t \in frames : \A f \in failing : t <= f}
    IN  [states |-> [t \in upTo |-> IF t \in failing THEN "Failed" ELSE "Ready"],
         raised |-> failing # {}]
\* The loop of upload_user_media over the frame files, in list order, each
\* upload inside its own try/except: no frame's failure ends the loop.
UploadImages(frames, failing) ==
    [states |-> [t \in frames |-> IF t \in failing THEN "Failed" ELSE "Ready"],
     raised |-> FALSE]

\* ------------------------------------------------------------ generate_report
\* The user media of the request: every entry of document_dict['user_data'].
RequestAssets(ud) == DOMAIN ud
\* The reference documents behind the request: self.model is built from the
\* cached content alone, and generate_report adds no reference document.
RequestContext(c) == c.contents
\* json.loads(response.text) raises on text that is not JSON.
\* ("api_error": send_message itself raised, there is no text.)
ParseRaises(resp) == resp.kind \in {"not_json", "api_error"}
\* json.loads of the text "null" is None.
JsonLoads(resp) == IF resp.kind = "null" THEN NoReport ELSE resp
\* The display block and the Word renderer index report['executiveSummary'],
\* report['detailedInspection'] and report['maintenanceNotes'] directly.
Displayable(rep) == rep.kind = "report"
\* _add_detailed_findings: the picture is added when mediaReference is set,
\* starts with "frame_" and os.path.join("extracted_frames", media_ref) exists.
EmbedsImage(media_ref, files) ==
    /\ media_ref # NoRef
    /\ media_ref.stem = "frame"
    /\ media_ref \in files

\* ------------------------------------------------------------------- inputs
VideoNames == {[stem |-> "walk", off |-> 1, ext |-> "mp4"]}
\* Durations of the videos of a session: empty and half length.
SessionDurations == {0, MaxDurUnits \div 2}
\* mediaReference values the analysis service may answer with: "frame_<t>"
\* and "frame_<t>.jpg" for a sampled or an unknown offset, or none.
MediaRefs ==
    {NoRef,
     [stem |-> "frame", off |-> FRAME_INTERVAL, ext |-> ""],
     [stem |-> "frame", off |-> FRAME_INTERVAL, ext |-> "jpg"],
     [stem |-> "frame", off |-> UnknownOffset, ext |-> ""]}
\* Raw answers of the analysis service: a JSON report with one finding, a JSON
\* object without the required keys, the JSON text null, text that is not
\* JSON, or an exception.
Responses ==
    {[kind |-> "report", ref |-> r] : r \in MediaRefs}
    \cup {[kind |-> k, ref |-> NoRef] :
            k \in {"missing_keys", "null", "not_json", "api_error"}}
\* The reference trees: two standards of the same name in different folders,
\* an unsupported file, and examples in recognized and unrecognized folders.
StandardsTree ==
    {[dir |-> "standards", name |-> "code", ext |-> "pdf"],
     [dir |-> "annex",     name |-> "code", ext |-> "pdf"],
     [dir |-> "standards", name |-> "spec", ext |-> "txt"],
     [dir |-> "standards", name |-> "tool", ext |-> "exe"]}
ExamplesTree ==
    {[dir |-> "example1", name |-> "report", ext |-> "docx"],
     [dir |-> "example2", name |-> "report", ext |-> "docx"],
     [dir |-> "drafts",   name |-> "report", ext |-> "docx"],
     [dir |-> "example1", name |-> "notes",  ext |-> "md"]}
\* The trees the session specification runs on.
\* The sets of reference files whose upload may raise in one load.
ReferenceFailures(files) == SUBSET files
SessionStandards ==
    {f \in StandardsTree : f.dir = "standards" /\ f.ext = "pdf"}
SessionExamples ==
    {f \in ExamplesTree : f.dir = "example1" /\ f.ext = "docx"}

VARIABLES
    \* st.session_state
    inspector,          \* 'inspector' in st.session_state
    video_processed,
    report_ready,
    report,
    frame_paths,
    \* HomeInspector
    standards_dir,      \* the files under self.standards_dir
    examples_dir,       \* the files under self.examples_dir
    building_standards, \* document_dict['building_standards']
    examples,           \* document_dict['examples']
    user_data,          \* document_dict['user_data']
    cache,              \* self.cache: [createdAt, contents]
    \* the video block while it runs _upload_video
    pc,                 \* "idle" | "polling"
    polls,              \* iterations of the polling loop so far
    pending,            \* video name and frames of the run that is polling
    assetState,         \* lifecycle state of each asset of the current batch
    batchTag,           \* tells the current batch from the one before it
    \* environment
    now,                \* clock
    disk,               \* files in extracted_frames/
    synthInvocations,   \* generate_report calls so far
    analysisCalls,      \* send_message calls so far
    submitted,          \* assets submitted since the inspection began
    \* frame sampling and corpus loading on their own
    sampDur,            \* duration of the video given to process_video
    sampled,            \* << >> or <<ProcessVideoResult>>
    failedUploads,      \* << >> or <<the files whose upload raised in the load>>
    loadRaised          \* the loaders let an exception out

vars == <<inspector, video_processed, report_ready, report, frame_paths,
          standards_dir, examples_dir, building_standards, examples, user_data,
          cache, pc, polls, pending, assetState, batchTag, now, disk,
          synthInvocations, analysisCalls, submitted,
          sampDur, sampled, failedUploads, loadRaised>>

sessionVars == <<inspector, video_processed, report_ready, report, frame_paths>>
inspectorVars == <<building_standards, examples, user_data, cache>>
dirVars == <<standards_dir, examples_dir>>
uploadVars == <<pc, polls, pending, assetState, batchTag>>
synthVars == <<synthInvocations, analysisCalls>>
harnessVars == <<sampDur, sampled, failedUploads, loadRaised>>

NoCache == [createdAt |-> 0, contents |-> {}]
NoPending == [video |-> NoRef, frames |-> {}]

InitCommon ==
    /\ inspector = FALSE
    /\ video_processed = FALSE
    /\ report_ready = FALSE
    /\ report = NoReport
    /\ frame_paths = NoFramePaths
    /\ building_standards = EmptyDict
    /\ examples = [example1 |-> EmptyDict, example2 |-> EmptyDict]
    /\ user_data = EmptyDict
    /\ cache = NoCache
    /\ pc = "idle"
    /\ polls = 0
    /\ pending = NoPending
    /\ assetState = EmptyDict
    /\ batchTag = 0
    /\ now = 0
    /\ disk = {}
    /\ synthInvocations = 0
    /\ analysisCalls = 0
    /\ submitted = {}
    /\ sampled = << >>
    /\ failedUploads = << >>
    /\ loadRaised = FALSE

Init ==
    /\ InitCommon
    /\ standards_dir = SessionStandards
    /\ examples_dir = SessionExamples
    /\ sampDur = 0

\* ---------------------------------------------------------------- actions
\* "Initialize Inspector": HomeInspector(api_key, standards_dir, examples_dir)
\* loads both trees and creates the cache; the session is touched only when
\* the constructor returns.
InitializeInspector ==
    /\ pc = "idle"
    /\ \E api_key \in BOOLEAN, created \in BOOLEAN,
          failing \in ReferenceFailures(standards_dir \cup examples_dir) :
       \E std \in DictsOf(StandardsUploaded(standards_dir, failing)),
          ex1 \in DictsOf(ExamplesUploaded(examples_dir, failing, "example1")),
          ex2 \in DictsOf(ExamplesUploaded(examples_dir, failing, "example2")) :
          IF /\ api_key
             /\ created
             /\ ~LoaderRaises(standards_dir \cup examples_dir, failing)
          THEN /\ inspector' = TRUE
               /\ building_standards' = std
               /\ examples' = [example1 |-> ex1, example2 |-> ex2]
               /\ user_data' = EmptyDict
               /\ cache' = [createdAt |-> now, contents |-> CacheContents(std)]
               /\ video_processed' = FALSE
               /\ report_ready' = FALSE
               /\ submitted' = {}
               /\ UNCHANGED <<report, frame_paths, dirVars, uploadVars, now,
                              disk, synthVars, harnessVars>>
          ELSE UNCHANGED vars

BatchStates(v, frames, vstate, fstates) ==
    [a \in {v} \cup {FrameFileName(t) : t \in frames} |->
        IF a = v THEN vstate
        ELSE IF a.off \in DOMAIN fstates THEN fstates[a.off] ELSE "Local"]

\* _upload_video raised: upload_user_media stops at the video, the first path
\* of the list, and the except of the video block leaves the session as it was.
VideoFailed(v, frames) ==
    /\ assetState' = BatchStates(v, frames, "Failed", EmptyDict)
    /\ pc' = "idle"
    /\ polls' = 0
    /\ pending' = NoPending
    /\ UNCHANGED <<sessionVars, inspectorVars, submitted>>

\* The video is stored, then every frame file is uploaded in turn, then the
\* video block sets video_processed and frame_paths.
VideoStored(v, frames, failing) ==
    LET r == UploadImages(frames, failing)
        stored == {FrameFileName(t) : t \in {x \in DOMAIN r.states : r.states[x] = "Ready"}}
    IN  /\ user_data' = PutAll(user_data, {v} \cup stored, "ACTIVE")
        /\ submitted' = submitted \cup {v} \cup stored
        /\ assetState' = BatchStates(v, frames, "Ready", r.states)
        /\ video_processed' = IF r.raised THEN video_processed ELSE TRUE
        /\ frame_paths' = IF r.raised THEN frame_paths ELSE <<FramePaths(frames)>>
        /\ pc' = "idle"
        /\ polls' = 0
        /\ pending' = NoPending
        /\ UNCHANGED <<inspector, report_ready, report, building_standards,
                       examples, cache>>

\* The video block up to the first answer of genai.upload_file for the video.
\* opened is false when cap.isOpened() fails or fps is 0: process_video raises
\* before any frame is written.  Each run works in a fresh temporary directory
\* and tracks assets of its own: batchTag changes.
ProcessVideo ==
    /\ pc = "idle"
    /\ inspector
    /\ ~video_processed
    /\ \E v \in VideoNames, d \in SessionDurations, opened \in BOOLEAN,
          state \in {"raise", "PROCESSING", "ACTIVE", "FAILED"} :
       \E readOk \in SUBSET SampleOffsets(d) :
       \E failing \in SUBSET readOk :
          LET pv == ProcessVideoResult(d, readOk) IN
          /\ IF ~opened \/ MediaBranch(v.ext) # "video"
             THEN UNCHANGED <<sessionVars, inspectorVars, uploadVars, disk, submitted>>
             ELSE /\ disk' = disk \cup {FrameFileName(t) : t \in pv.frames}
                  /\ batchTag' = 1 - batchTag
                  /\ IF state = "raise" \/ (~KeepPolling(state) /\ VideoRaises(state))
                     THEN VideoFailed(v, pv.frames)
                     ELSE IF KeepPolling(state)
                     THEN /\ pc' = "polling"
                          /\ polls' = 0
                          /\ pending' = [video |-> v, frames |-> pv.frames]
                          /\ assetState' = BatchStates(v, pv.frames, TrackerState(state), EmptyDict)
                          /\ UNCHANGED <<sessionVars, inspectorVars, submitted>>
                     ELSE VideoStored(v, pv.frames, failing)
    /\ UNCHANGED <<dirVars, now, synthVars, harnessVars>>

\* One iteration of the polling loop: time.sleep(10), genai.get_file.
Poll ==
    /\ pc = "polling"
    /\ \E state \in {"raise", "PROCESSING", "ACTIVE", "FAILED"},
          failing \in SUBSET pending.frames :
          /\ (state # "raise" /\ KeepPolling(state)) => polls < MaxPolls
          /\ IF state = "raise" \/ (~KeepPolling(state) /\ VideoRaises(state))
             THEN VideoFailed(pending.video, pending.frames)
             ELSE IF KeepPolling(state)
             THEN /\ polls' = polls + 1
                  /\ assetState' = BatchStates(pending.video, pending.frames,
                                               TrackerState(state), EmptyDict)
                  /\ UNCHANGED <<pc, pending, sessionVars, inspectorVars, submitted>>
             ELSE VideoStored(pending.video, pending.frames, failing)
    /\ UNCHANGED <<dirVars, batchTag, now, disk, synthVars, harnessVars>>

\* "Generate Inspection Report": one generate_report call, then the display
\* block of the same script run.
GenerateReport ==
    /\ pc = "idle"
    /\ inspector
    /\ video_processed
    /\ ~report_ready
    /\ synthInvocations < MaxSynth
    /\ \E resp \in Responses :
          /\ synthInvocations' = synthInvocations + 1
          /\ analysisCalls' = analysisCalls + 1
          /\ IF ParseRaises(resp)
             THEN UNCHANGED <<report, report_ready>>
             ELSE /\ report' = JsonLoads(resp)
                  /\ report_ready' = TRUE
    /\ UNCHANGED <<inspector, video_processed, frame_paths, inspectorVars,
                   dirVars, uploadVars, now, disk, submitted, harnessVars>>

\* "Start New Inspection": the button is drawn at the end of the display
\* block, which a report that cannot be displayed never reaches.
StartNewInspection ==
    /\ pc = "idle"
    /\ inspector
    /\ report_ready
    /\ Displayable(report)
    /\ video_processed' = FALSE
    /\ report_ready' = FALSE
    /\ report' = NoReport
    /\ frame_paths' = NoFramePaths
    /\ submitted' = {}
    /\ UNCHANGED <<inspector, inspectorVars, dirVars, uploadVars, now, disk,
                   synthVars, harnessVars>>

\* Time passes between two script runs.
Tick ==
    /\ pc = "idle"
    /\ now + TickMinutes <= MaxNow
    /\ now' = now + TickMinutes
    /\ UNCHANGED <<sessionVars, inspectorVars, dirVars, uploadVars, disk,
                   synthVars, submitted, harnessVars>>

Next ==
    \/ InitializeInspector
    \/ ProcessVideo
    \/ Poll
    \/ GenerateReport
    \/ StartNewInspection
    \/ Tick

Spec == Init /\ [][Next]_vars

\* ------------------------------------------------ frame sampling on its own
InitSampler ==
    /\ InitCommon
    /\ standards_dir = SessionStandards
    /\ examples_dir = SessionExamples
    /\ sampDur \in 0..MaxDurUnits

\* One process_video call on an opened video of duration sampDur.
Sample ==
    /\ sampled = << >>
    /\ \E readOk \in SUBSET SampleOffsets(sampDur) :
          /\ sampled' = <<ProcessVideoResult(sampDur, readOk)>>
          /\ disk' = disk \cup {FrameFileName(t) : t \in ProcessVideoResult(sampDur, readOk).frames}
    /\ UNCHANGED <<sessionVars, inspectorVars, dirVars, uploadVars, now,
                   synthVars, submitted, sampDur, failedUploads, loadRaised>>

SpecSampler == InitSampler /\ [][Sample]_vars

\* ------------------------------------------------ corpus loading on its own
InitLoad ==
    /\ InitCommon
    /\ standards_dir \in SUBSET StandardsTree
    /\ examples_dir \in SUBSET ExamplesTree
    /\ sampDur = 0

\* _load_standards, then _load_examples, on the two trees.
LoadReference ==
    /\ failedUploads = << >>
    /\ \E failing \in SUBSET (standards_dir \cup examples_dir) :
       \E std \in DictsOf(StandardsUploaded(standards_dir, failing)),
          ex1 \in DictsOf(ExamplesUploaded(examples_dir, failing, "example1")),
          ex2 \in DictsOf(ExamplesUploaded(examples_dir, failing, "example2")) :
          /\ building_standards' = std
          /\ examples' = [example1 |-> ex1, example2 |-> ex2]
          /\ failedUploads' = <<failing>>
          /\ loadRaised' = LoaderRaises(standards_dir \cup examples_dir, failing)
    /\ UNCHANGED <<sessionVars, user_data, cache, dirVars, uploadVars, now,
                   disk, synthVars, submitted, sampDur, sampled>>

SpecLoad == InitLoad /\ [][LoadReference]_vars

\* ------------------------------------------------------------------ claims
CeilDiv(a, b) == (a + b - 1) \div b

\* C6: process_video makes exactly ceil(D / interval) sampling attempts, at
\* the offsets 0, interval, 2*interval, ..., all of them below D, for every
\* duration D (whole seconds or not, shorter than a second or not).
C6_AttemptsAreCeilOfDuration ==
    sampled # << >> =>
        /\ Cardinality(sampled[1].attempts) = CeilDiv(sampDur, DurUnit * FRAME_INTERVAL)
        /\ \A t \in sampled[1].attempts :
              t % FRAME_INTERVAL = 0 /\ t * DurUnit < sampDur

\* The files of a tree whose upload was attempted and did not raise.
Succeeded(files, failing) ==
    {f \in files : f.ext \in SUPPORTED_EXTENSIONS /\ f \notin failing}
RecognizedSucceeded(files, failing, sub) ==
    {f \in Succeeded(files, failing) : f.dir = sub}

\* C9 as stated: the load never raises and the corpus holds exactly the files
\* whose upload succeeded; example files outside example1/example2 are left out.
C9_CorpusIsExactlySucceeded ==
    failedUploads # << >> =>
        /\ ~loadRaised
        /\ Values(building_standards) = Succeeded(standards_dir, failedUploads[1])
        /\ \A sub \in EXAMPLE_SUBFOLDERS :
              Values(examples[sub]) = RecognizedSucceeded(examples_dir, failedUploads[1], sub)

\* C9 as amended: the load never raises; each corpus holds one entry per file
\* name among the files whose upload succeeded, and that entry is one of the
\* succeeded files of that name; nothing that failed and nothing from an
\* unrecognized example folder is in it.
C9_CorpusIsOnePerSucceededName ==
    failedUploads # << >> =>
        /\ ~loadRaised
        /\ DOMAIN building_standards =
              {FileKey(f) : f \in Succeeded(standards_dir, failedUploads[1])}
        /\ Values(building_standards) \subseteq Succeeded(standards_dir, failedUploads[1])
        /\ \A sub \in EXAMPLE_SUBFOLDERS :
              /\ DOMAIN examples[sub] =
                    {FileKey(f) : f \in RecognizedSucceeded(examples_dir, failedUploads[1], sub)}
              /\ Values(examples[sub]) \subseteq
                    RecognizedSucceeded(examples_dir, failedUploads[1], sub)

\* A load in which one supported standard failed, the others were kept, and an
\* example in an unrecognized folder was passed over.
C9_Witness ==
    /\ failedUploads # << >>
    /\ \E f \in standards_dir : f.ext \in SUPPORTED_EXTENSIONS /\ f \in failedUploads[1]
    /\ Cardinality(DOMAIN building_standards) = 2
    /\ \E f \in examples_dir : f.dir \notin EXAMPLE_SUBFOLDERS /\ f.ext \in SUPPORTED_EXTENSIONS
    /\ examples["example1"] # EmptyDict

\* ----------------------------------------------------- claims on the tracker
\* A wait may last: the longest wait, in seconds, that the claim's maxWait allows.
MaxWaitSeconds == (MaxPolls - 1) * POLL_SLEEP

\* C1: a wait on a video that the remote keeps reporting as processing ends
\* once maxWait is exceeded (with a TimeoutError, the asset left in
\* RemoteProcessing): the loop is never still polling beyond maxWait.
C1_WaitEndsAtMaxWait ==
    pc = "polling" => polls * POLL_SLEEP <= MaxWaitSeconds

\* The step ends a run of the video block that submitted a batch.
HandlerEnds == pc' = "idle" /\ (pc = "polling" \/ batchTag' # batchTag)
IsVideo(a) == MediaBranch(a.ext) = "video"

Rank(st) == CASE st = "Local" -> 0 [] st = "RemoteProcessing" -> 1 [] OTHER -> 2

\* C3: within a batch an asset only moves forward along Local ->
\* RemoteProcessing -> Ready/Failed, and one that is Ready or Failed keeps that
\* state through every later poll and every other operation.
C3_TerminalStatesAreFinal ==
    [][batchTag' = batchTag =>
         \A a \in DOMAIN assetState :
            /\ a \in DOMAIN assetState'
            /\ Rank(assetState'[a]) >= Rank(assetState[a])
            /\ assetState[a] \in {"Ready", "Failed"} => assetState'[a] = assetState[a]]_vars

\* A batch that was polled to Ready, with one frame Failed, after the report
\* was generated and time has passed.
C3_Witness ==
    /\ report_ready
    /\ now > 0
    /\ \E a, b \in DOMAIN assetState :
          /\ IsVideo(a) /\ assetState[a] = "Ready"
          /\ assetState[b] = "Failed"

\* ----------------------------------------------------- claims on the session
\* The step issues an analysis call.
SynthesisStep == analysisCalls' # analysisCalls

\* C4: whenever a request is assembled, the cache it uses is younger than the
\* TTL (an expired cache is rebuilt first).
C4_NoSynthesisOnExpiredCache ==
    [][SynthesisStep => now' - cache'.createdAt < TTL_MINUTES]_vars

\* The offsets of the frames extracted in the current inspection.
ExtractedOffsets ==
    IF frame_paths = NoFramePaths THEN {}
    ELSE {k.off : k \in DOMAIN frame_paths[1]}
DenotesFrame(ref) == ref # NoRef /\ ref.stem = "frame"

\* C5: no accepted report holds a mediaReference that denotes a frame which
\* was not extracted in the current session.
C5_UnresolvedReferenceRejected ==
    (report_ready /\ report.kind = "report" /\ DenotesFrame(report.ref))
        => report.ref.off \in ExtractedOffsets

\* C7: a finding whose mediaReference is "frame_<t>", t the offset of a frame
\* extracted in this session, gets that frame's file embedded by the renderer.
C7_FrameIdResolvesToFile ==
    (/\ report_ready
     /\ report.kind = "report"
     /\ report.ref.stem = "frame"
     /\ report.ref.ext = ""
     /\ report.ref.off \in ExtractedOffsets)
        => EmbedsImage(report.ref, disk)

\* C8: a reset leaves no tracked user media, and a request assembled
\* afterwards holds only assets submitted since.
C8_ResetClearsUserMedia ==
    [][/\ (report_ready /\ ~report_ready') => user_data' = EmptyDict
       /\ SynthesisStep => RequestAssets(user_data) \subseteq submitted]_vars

\* A response the orchestrator must refuse: required keys missing, or a frame
\* reference that does not resolve.
Malformed(rep) ==
    \/ rep.kind \in {"missing_keys", "none"}
    \/ rep.kind = "report" /\ DenotesFrame(rep.ref) /\ rep.ref.off \notin ExtractedOffsets

\* C10: n invocations of generate_report make exactly n analysis calls, and a
\* malformed response is never stored as the report.
C10_OneCallPerSynthesis ==
    /\ analysisCalls = synthInvocations
    /\ report_ready => ~Malformed(report)

\* Every reference entry the loaders stored, in any category.
LoadedCorpus ==
    Values(building_standards) \cup Values(examples["example1"])
        \cup Values(examples["example2"])

\* C11: the context of every analysis request is the whole loaded corpus:
\* every loaded standard and every loaded example is in it.
C11_ContextIsWholeCorpus ==
    [][SynthesisStep => LoadedCorpus \subseteq RequestContext(cache)]_vars

\* C12: report_ready is true only while an inspector exists, video_processed
\* is true and a non-null report is stored.
C12_ReportReadyImpliesStoredReport ==
    report_ready => inspector /\ video_processed /\ report # NoReport

\* The part of C12 that does not rest on the response: report_ready is true
\* only while an inspector exists and video_processed is true, it is set only
\* by a step that issues an analysis call with video_processed true, and every
\* step that ends video_processed (a reset, a new inspector) ends it too.
SessionFlagsConsistent ==
    [][/\ report_ready' => inspector' /\ video_processed'
       /\ (report_ready' /\ ~report_ready) => SynthesisStep /\ video_processed
       /\ (video_processed /\ ~video_processed') => ~report_ready']_vars

====
